---- MODULE Spec2Model ----
(***************************************************************************)
(* Model of the connection set-up of peertube-plugin-livechat:             *)
(*   - the capability probe (anonymousConnectionInfos and the two          *)
(*     remote-authenticated tests),                                        *)
(*   - the identity lookup of the client (authenticatedMode),              *)
(*   - initConverse of conversejs/builtin.ts, which resolves the           *)
(*     connection mode and hands the configuration to ConverseJS.          *)
(***************************************************************************)
EXTENDS Integers, Sequences, FiniteSets, TLC

VARIABLES
  \* ---- capability probe (one probed room record) ----
  livechatInfos,      \* the room metadata given to the probe (a JS value)
  canWebsocketS2S,    \* local server flags given to the compatibility test
  canDirectS2S,
  probeAnonymous,     \* completion of anonymousConnectionInfos, or NotRun
  probeRemoteAuth,    \* completion of remoteAuthenticatedConnectionEnabled
  probeCompatible,    \* completion of compatibleRemoteAuthenticatedConnectionEnabled
  \* ---- identity lookup (authenticatedMode) ----
  browser,            \* what the browser offers: fetch, localStorage, the stored tokens
  lookupPc,           \* position of the lookup: "idle", "fetching", "reading", "returned", "raised"
  lookupRequests,     \* number of window.fetch calls issued by the lookup
  lookupResponse,     \* the response the lookup is reading, or NoResponse
  lookupResult,       \* what the lookup returned (JS value), JsUndefined before it returns
  \* ---- initConverse (builtin.ts) ----
  chatIncludeMode,    \* how the chat is included in the page
  hostWindow,         \* the window the chat runs in: itself and its top window
  initConverseParams, \* the init parameters object given by the host page (initConverse writes to it)
  givenParams,        \* the init parameters as the host page built them, before any call
  pc,                 \* per attempt: "idle", "awaiting", "done", "errorPage", "thrown"
  authOf,             \* per attempt: what getLocalAuthentInfos resolved to
  params,             \* per attempt: the ConverseJS configuration being built
  flags,              \* per attempt: isAuthenticated, isAuthenticatedWithExternalAccount, isRemoteWithNicknameSet
  handed,             \* per attempt: "none", "initialize" or "reconnect" (how params reached the widget)
  errorLogged,        \* per attempt: the widget call threw and the catch block logged it
  widgetCalls,        \* per attempt: the calls made to the widget, in order
  reconnectConverse,  \* window.reconnectConverse is registered
  bodyIsErrorPage,    \* document.body was replaced by the "not accessible" notice
  destroyed           \* the embedding instance was destroyed / the host page navigated away

probeVars == <<livechatInfos, canWebsocketS2S, canDirectS2S, probeAnonymous, probeRemoteAuth, probeCompatible>>
lookupVars == <<browser, lookupPc, lookupRequests, lookupResponse, lookupResult>>
converseVars == <<chatIncludeMode, hostWindow, initConverseParams, givenParams, pc, authOf, params, flags, handed,
                  errorLogged, widgetCalls, reconnectConverse, bodyIsErrorPage, destroyed>>
vars == <<probeVars, lookupVars, converseVars>>

(***************************************************************************)
(* JavaScript values.  Every value is a record tagged with its type, so    *)
(* that a property read on undefined/null is a TypeError here as well.     *)
(***************************************************************************)
JsUndefined == [t |-> "undefined"]
JsNull == [t |-> "null"]
JsBool(b) == [t |-> "boolean", v |-> b]
JsStr(s) == [t |-> "string", v |-> s]
JsObj(f) == [t |-> "object", f |-> f]
\* the completion of an expression that threw a TypeError
JsThrow == [t |-> "throw"]

\* ToBoolean
Truthy(x) ==
  CASE x.t = "undefined" -> FALSE
    [] x.t = "null" -> FALSE
    [] x.t = "boolean" -> x.v
    [] x.t = "string" -> x.v # ""
    [] x.t = "object" -> TRUE

\* x === JsStr(s)
IsStr(x, s) == x.t = "string" /\ x.v = s

\* x.k : a TypeError on undefined and null, undefined where the property is absent
Get(x, k) ==
  IF x.t \in {"undefined", "null", "throw"} THEN JsThrow
  ELSE IF x.t = "object" /\ k \in DOMAIN x.f THEN x.f[k]
  ELSE JsUndefined

\* (k in x) : a TypeError unless x is an object
HasKey(x, k) ==
  IF x.t # "object" THEN JsThrow ELSE JsBool(k \in DOMAIN x.f)

\* !x
Not(x) == IF x.t = "throw" THEN JsThrow ELSE JsBool(~Truthy(x))

\* if (c) { a } else { b }, a throw in c propagating
If(c, a, b) == IF c.t = "throw" THEN JsThrow ELSE IF Truthy(c) THEN a ELSE b

\* obj with property k set to v
With(obj, k, v) == JsObj((k :> v) @@ obj.f)

(***************************************************************************)
(* Capability probe.                                                       *)
(***************************************************************************)
\* variant: the type of the record is not looked at
IsNotXmpp_Ignored(x) == IF x.t = "throw" THEN JsThrow ELSE JsBool(FALSE)

\* x !== 'xmpp'
IsNotXmpp(x) == IF x.t = "throw" THEN JsThrow ELSE JsBool(~IsStr(x, "xmpp"))

\* if (v) { r[k] = v }
WithIfTruthy(r, k, v) == IF Truthy(v) THEN With(r, k, v) ELSE r

\* the final test of anonymousConnectionInfos: no endpoint, no connection
NoEndpoint(r) == JsBool(~Truthy(Get(r, "boshUri")) /\ ~Truthy(Get(r, "wsUri")))

anonymousConnectionInfos(li) ==
  LET xmppserver == Get(li, "xmppserver")
      anonymous == Get(xmppserver, "anonymous")
      r0 == JsObj([roomJID |-> Get(li, "jid"), userJID |-> Get(anonymous, "virtualhost")])
      r1 == WithIfTruthy(r0, "boshUri", Get(anonymous, "bosh"))
      r2 == WithIfTruthy(r1, "wsUri", Get(anonymous, "websocket"))
  IN If(Not(li), JsNull,
     If(IsNotXmpp(Get(li, "type")), JsNull,
     If(Not(xmppserver), JsNull,
     If(Not(anonymous), JsNull,
     If(NoEndpoint(r2), JsNull, r2)))))

remoteAuthenticatedConnectionEnabled(li) ==
  LET xmppserver == Get(li, "xmppserver")
  IN If(Not(li), JsBool(FALSE),
     If(IsNotXmpp(Get(li, "type")), JsBool(FALSE),
     If(Not(HasKey(li, "xmppserver")), JsBool(FALSE),
     If(Not(xmppserver), JsBool(FALSE),
     If(Get(xmppserver, "websockets2s"), JsBool(TRUE),
     If(Get(xmppserver, "directs2s"), JsBool(TRUE),
     JsBool(FALSE)))))))

\* variant: any local transport is matched with any remote transport
S2SCompatible_Mixed(xmppserver, canWs, canDirect) ==
  If(JsBool(canWs \/ canDirect),
     If(Get(xmppserver, "websockets2s"), JsBool(TRUE),
     If(Get(xmppserver, "directs2s"), JsBool(TRUE), JsBool(FALSE))),
     JsBool(FALSE))

\* the two transport tests of compatibleRemoteAuthenticatedConnectionEnabled
S2SCompatible(xmppserver, canWs, canDirect) ==
  If(If(JsBool(canWs), Get(xmppserver, "websockets2s"), JsBool(FALSE)), JsBool(TRUE),
  If(If(JsBool(canDirect), Get(xmppserver, "directs2s"), JsBool(FALSE)), JsBool(TRUE),
  JsBool(FALSE)))

compatibleRemoteAuthenticatedConnectionEnabled(li, canWs, canDirect) ==
  LET xmppserver == Get(li, "xmppserver")
  IN If(Not(li), JsBool(FALSE),
     If(IsNotXmpp(Get(li, "type")), JsBool(FALSE),
     If(Not(HasKey(li, "xmppserver")), JsBool(FALSE),
     If(Not(xmppserver), JsBool(FALSE),
     S2SCompatible(xmppserver, canWs, canDirect)))))

\* ---- the room records the probe is run on ----
EmptyObj == [k \in {} |-> JsUndefined]
Hosts == {"", "conf.example.org"}
BoshUris == {"", "https://x/bosh"}
WsUris == {"", "wss://x/ws"}
OptionalProp(k, values) == {EmptyObj} \cup {(k :> JsStr(v)) : v \in values}
AnonymousBlocks ==
  {JsObj(vh @@ b @@ w) : vh \in OptionalProp("virtualhost", Hosts),
                         b \in OptionalProp("bosh", BoshUris),
                         w \in OptionalProp("websocket", WsUris)}
XmppServers ==
  {JsObj(("websockets2s" :> JsBool(w)) @@ ("directs2s" :> JsBool(d)) @@ a) :
     w \in BOOLEAN, d \in BOOLEAN,
     a \in {EmptyObj} \cup {("anonymous" :> blk) : blk \in AnonymousBlocks}}
RoomTypes == {"xmpp", "other"}
LiveChatInfos ==
  {JsBool(FALSE), JsUndefined} \cup
  {JsObj(("type" :> JsStr(t)) @@ ("jid" :> JsStr("room@room.example.org")) @@ x) :
     t \in RoomTypes,
     x \in {EmptyObj, ("xmppserver" :> JsUndefined)} \cup {("xmppserver" :> s) : s \in XmppServers}}

NotRun == [t |-> "notrun"]

ProbeInit ==
  /\ livechatInfos \in LiveChatInfos
  /\ canWebsocketS2S \in BOOLEAN
  /\ canDirectS2S \in BOOLEAN
  /\ probeAnonymous = NotRun
  /\ probeRemoteAuth = NotRun
  /\ probeCompatible = NotRun

ProbeAnonymous ==
  /\ probeAnonymous = NotRun
  /\ probeAnonymous' = anonymousConnectionInfos(livechatInfos)
  /\ UNCHANGED <<livechatInfos, canWebsocketS2S, canDirectS2S, probeRemoteAuth, probeCompatible>>

ProbeRemoteAuthenticated ==
  /\ probeRemoteAuth = NotRun
  /\ probeRemoteAuth' = remoteAuthenticatedConnectionEnabled(livechatInfos)
  /\ UNCHANGED <<livechatInfos, canWebsocketS2S, canDirectS2S, probeAnonymous, probeCompatible>>

ProbeCompatible ==
  /\ probeCompatible = NotRun
  /\ probeCompatible' =
       compatibleRemoteAuthenticatedConnectionEnabled(livechatInfos, canWebsocketS2S, canDirectS2S)
  /\ UNCHANGED <<livechatInfos, canWebsocketS2S, canDirectS2S, probeAnonymous, probeRemoteAuth>>


(***************************************************************************)
(* Identity lookup: authenticatedMode of client/converse/init.ts.          *)
(***************************************************************************)
\* typeof x
TypeOf(x) == IF x.t = "null" THEN "object" ELSE x.t

\* window.localStorage.getItem(k) ?? ''
StoredItem(b, k) == b[k]

\* tokenType === '' && accessToken === '' && refreshToken === ''
NotLoggedIn(b) ==
  /\ StoredItem(b, "token_type") = ""
  /\ StoredItem(b, "access_token") = ""
  /\ StoredItem(b, "refresh_token") = ""

\* lines 52-67: the tests made before any request; TRUE when the lookup gives up there
GivesUpBeforeFetch(b) == ~b.fetch \/ ~b.localStorage \/ NotLoggedIn(b)

\* !data.jid || !data.password
MissingRequiredFields(data) ==
  If(Not(Get(data, "jid")), JsBool(TRUE), Not(Get(data, "password")))

\* lines 82-95: from the parsed body to the returned value (a throw is a TypeError)
ReadUserInfos(data) ==
  IF data.t = "throw" THEN JsThrow
  ELSE IF TypeOf(data) # "object" THEN JsBool(FALSE)
  ELSE If(MissingRequiredFields(data), JsBool(FALSE),
          JsObj([jid |-> Get(data, "jid"), password |-> Get(data, "password"),
                 nickname |-> Get(data, "nickname")]))

\* variant: the body of the lookup is not wrapped in try/catch
CatchAll_Missing(completion) == completion

\* try { ... } catch (error) { console.error(error); return false }
CatchAll(completion) == IF completion.t = "throw" THEN JsBool(FALSE) ELSE completion

\* what the lookup does with a completion of its body: return it, or let it propagate
Settle(completion) == IF completion.t = "throw" THEN "raised" ELSE "returned"

\* ---- the browsers and servers the lookup is run against ----
TokenTypes == {"", "Bearer"}
AccessTokens == {"", "access"}
RefreshTokens == {"", "refresh"}
Browsers ==
  [fetch : BOOLEAN, localStorage : BOOLEAN,
   token_type : TokenTypes, access_token : AccessTokens, refresh_token : RefreshTokens]
UserInfosBodies ==
  {JsObj(j @@ pw @@ n) : j \in OptionalProp("jid", {"", "user@example.org"}),
                         pw \in OptionalProp("password", {"", "secret"}),
                         n \in OptionalProp("nickname", {"Nick"})}
\* JsThrow stands for a body response.json() rejects
Bodies == {JsThrow, JsNull, JsStr("error"), JsBool(TRUE)} \cup UserInfosBodies
NoResponse == [ok |-> FALSE, body |-> JsUndefined]
Responses == [ok : BOOLEAN, body : Bodies]

LookupInit ==
  /\ browser \in Browsers
  /\ lookupPc = "idle"
  /\ lookupRequests = 0
  /\ lookupResponse = NoResponse
  /\ lookupResult = JsUndefined

\* lines 51-75: up to the first await
LookupStart ==
  /\ lookupPc = "idle"
  /\ IF GivesUpBeforeFetch(browser)
       THEN /\ lookupPc' = "returned"
            /\ lookupResult' = JsBool(FALSE)
            /\ UNCHANGED lookupRequests
       ELSE /\ lookupPc' = "fetching"
            /\ lookupRequests' = lookupRequests + 1
            /\ UNCHANGED lookupResult
  /\ UNCHANGED <<browser, lookupResponse>>

\* lines 69, 96-99: window.fetch rejects (network error)
FetchRejects ==
  /\ lookupPc = "fetching"
  /\ lookupPc' = Settle(CatchAll(JsThrow))
  /\ lookupResult' = CatchAll(JsThrow)
  /\ UNCHANGED <<browser, lookupRequests, lookupResponse>>

\* lines 69-81: window.fetch resolves with a response
FetchResolves ==
  /\ lookupPc = "fetching"
  /\ \E response \in Responses :
       IF ~response.ok
         THEN /\ lookupPc' = "returned"
              /\ lookupResult' = JsBool(FALSE)
              /\ UNCHANGED lookupResponse
         ELSE /\ lookupPc' = "reading"
              /\ lookupResponse' = response
              /\ UNCHANGED lookupResult
  /\ UNCHANGED <<browser, lookupRequests>>

\* lines 81-99: response.json() settles
JsonSettles ==
  /\ lookupPc = "reading"
  /\ lookupPc' = Settle(CatchAll(ReadUserInfos(lookupResponse.body)))
  /\ lookupResult' = CatchAll(ReadUserInfos(lookupResponse.body))
  /\ UNCHANGED <<browser, lookupRequests, lookupResponse>>


(***************************************************************************)
(* initConverse of conversejs/builtin.ts.                                  *)
(***************************************************************************)
\* p with p[k] = v (an assignment to a field of a plain object)
Set(p, k, v) == (k :> v) @@ p
Has(p, k) == k \in DOMAIN p

\* ---- URLs: scheme and host are "" in a relative URL ('/path') ----
WindowLocation == [protocol |-> "https:", host |-> "video.example.org"]
RelativeUrl(path) == [scheme |-> "", host |-> "", path |-> path]
\* url?.startsWith('/')
StartsWithSlash(url) == url.scheme = ""
\* variant: the origin is put in front of the URL without the startsWith test
FixWebsocketUrl_Always(url, location) ==
  [scheme |-> IF location.protocol = "http:" THEN "ws:" ELSE "wss:",
   host |-> location.host, path |-> url.host \o url.path]

\* new URL(url, (protocol === 'http:' ? 'ws://' : 'wss://') + host).toString()
FixWebsocketUrl(url, location) ==
  IF StartsWithSlash(url)
    THEN [scheme |-> IF location.protocol = "http:" THEN "ws:" ELSE "wss:",
          host |-> location.host, path |-> url.path]
    ELSE url

\* ---- nicknames ----
NickMin == 100000
NickSpan == 900000
\* Math.random() is drawn as numerator / RandomDenominator, in [0, 1)
RandomDenominator == 1000
RandomDraws == {0, RandomDenominator - 1}
DigitChars == <<"0", "1", "2", "3", "4", "5", "6", "7", "8", "9">>
RECURSIVE NumberToString(_)
\* n.toString() for n >= 0, as the sequence of its decimal digits
NumberToString(n) == IF n < 10 THEN <<DigitChars[n + 1]>> ELSE NumberToString(n \div 10) \o <<DigitChars[(n % 10) + 1]>>
\* variant: the draw is scaled to seven digits
RandomNumber_WideSpan(rnd) == NickMin + ((rnd * 1000000) \div RandomDenominator)

\* 100000 + Math.floor(Math.random() * 900000)
RandomNumber(rnd) == NickMin + ((rnd * NickSpan) \div RandomDenominator)
\* base + ' ' + n.toString()
randomNick(base, rnd) == <<base, " ">> \o NumberToString(RandomNumber(rnd))

\* ---- the helpers of lib/converse-params and lib/auth ----
\* what getLocalAuthentInfos can resolve to: false, the Peertube account of the
\* visitor, or (when OIDC is offered) an external account
PeertubeAccount ==
  JsObj([type |-> JsStr("peertube"), jid |-> JsStr("user@video.example.org"),
         password |-> JsStr("secret"), nickname |-> JsStr("Nick")])
ExternalAccount ==
  JsObj([type |-> JsStr("oidc"), jid |-> JsStr("ext-user@external.video.example.org"),
         password |-> JsStr("token")])
getLocalAuthentInfos(tryOIDC) ==
  {JsBool(FALSE), PeertubeAccount} \cup (IF tryOIDC THEN {ExternalAccount} ELSE {})

defaultConverseParams(icp) ==
  [authentication |-> "anonymous",
   auto_login |-> TRUE,
   keepalive |-> TRUE,
   jid |-> JsUndefined,
   auto_focus |-> icp.autofocus,
   hide_muc_participants |-> icp.forceDefaultHideMucParticipants,
   livechat_enable_viewer_mode |-> FALSE]

localRoomAnonymousParams(icp, p) ==
  Set(Set(Set(p, "jid", JsStr(icp.localAnonymousJID)),
      "bosh_service_url", icp.localBoshServiceUrl),
      "websocket_url", icp.localWebsocketServiceUrl)

\* the fields an authenticated connection takes from the identity
AuthenticatedFields(auth, p) ==
  LET p1 == Set(Set(Set(Set(p, "authentication", "login"), "jid", Get(auth, "jid")),
                "password", Get(auth, "password")), "keepalive", FALSE)
  IN IF Truthy(Get(auth, "nickname")) THEN Set(p1, "nickname", Get(auth, "nickname")) ELSE p1

localRoomAuthenticatedParams(icp, auth, p) ==
  AuthenticatedFields(auth, localRoomAnonymousParams(icp, p))

remoteRoomAnonymousParams(icp, auth, p) ==
  LET p1 == Set(Set(Set(p, "jid", JsStr(icp.remoteAnonymousJID)),
                "bosh_service_url", icp.remoteBoshServiceUrl),
                "websocket_url", icp.remoteWebsocketServiceUrl)
  IN IF Truthy(auth) /\ Truthy(Get(auth, "nickname"))
       THEN Set(p1, "nickname", Get(auth, "nickname")) ELSE p1

remoteRoomAuthenticatedParams(icp, auth, p) ==
  AuthenticatedFields(auth,
    Set(Set(p, "bosh_service_url", icp.remoteBoshServiceUrl),
        "websocket_url", icp.remoteWebsocketServiceUrl))


\* window.self !== window.top, true when the read of window.top throws
inIframe(win) == IF win.topThrows THEN TRUE ELSE win.self # win.top

\* ---- initConverse, lines 78-118: up to the await of the identity lookup ----
\* lines 79-84 and 100-105: the writes made to the init parameters
PrepareInitParams(icp, mode, isInIframe) ==
  [icp EXCEPT !.localWebsocketServiceUrl = FixWebsocketUrl(@, WindowLocation),
              !.autofocus = (mode = "peertube-fullpage") \/ (mode = "chat-only" /\ ~isInIframe),
              !.forceDefaultHideMucParticipants = isInIframe \/ mode = "peertube-video"]

\* lines 107-109
InitialParams(icp, mode) ==
  Set(Set(defaultConverseParams(icp),
      "view_mode", IF mode = "chat-only" THEN "fullscreen" ELSE "embedded"),
      "allow_url_history_change", mode = "chat-only")

\* (initConverseParams.externalAuthOIDC?.length ?? 0) > 0
TryOIDC(icp) == Len(icp.externalAuthOIDC) > 0

\* ---- lines 120-146: the branch taken on the identity and the room ----
Branch(p, isAuthenticated, isExternal, isRemoteWithNicknameSet) ==
  [params |-> p, isAuthenticated |-> isAuthenticated,
   isAuthenticatedWithExternalAccount |-> isExternal,
   isRemoteWithNicknameSet |-> isRemoteWithNicknameSet]

\* auth.type !== 'peertube'
IsExternal(auth) == ~IsStr(Get(auth, "type"), "peertube")

\* variant: the anonymous remote connection is built before the JID is cleared
NoRemoteConnection_AfterAnonymous(icp, auth, p) ==
  Set(remoteRoomAnonymousParams(icp, auth, p), "jid", JsNull)

\* variant: the JID is left as it was
NoRemoteConnection_Forgotten(icp, auth, p) == p

\* lines 134-135 and 143-144: params.jid = null
NoRemoteConnection(icp, auth, p) == Set(p, "jid", JsNull)

ResolveBranch(icp, auth, p) ==
  IF Truthy(auth)
    THEN IF ~icp.isRemoteChat
           THEN Branch(localRoomAuthenticatedParams(icp, auth, p), TRUE, IsExternal(auth), FALSE)
         ELSE IF icp.remoteAuthenticatedXMPPServer
           THEN Branch(remoteRoomAuthenticatedParams(icp, auth, p), TRUE, IsExternal(auth), FALSE)
         ELSE IF icp.remoteAnonymousXMPPServer
           THEN Branch(remoteRoomAnonymousParams(icp, auth, p), FALSE, FALSE, TRUE)
         ELSE Branch(NoRemoteConnection(icp, auth, p), FALSE, FALSE, FALSE)
    ELSE IF ~icp.isRemoteChat
           THEN Branch(localRoomAnonymousParams(icp, p), FALSE, FALSE, FALSE)
         ELSE IF icp.remoteAnonymousXMPPServer
           THEN Branch(remoteRoomAnonymousParams(icp, JsNull, p), FALSE, FALSE, FALSE)
         ELSE Branch(NoRemoteConnection(icp, auth, p), FALSE, FALSE, FALSE)

\* ---- lines 148-159: no JID ----
\* params.jid === null
JidIsNull(p) == p.jid = JsNull
\* variant: the error page is shown in the full page mode instead of chat-only
NoJidOutcome_WrongMode(mode) == IF mode = "peertube-fullpage" THEN "errorPage" ELSE "thrown"

\* how the attempt ends without a JID: the error page, or a thrown Error
NoJidOutcome(mode) == IF mode = "chat-only" THEN "errorPage" ELSE "thrown"

\* ---- lines 161-203: the settings made once a JID is known ----
\* lines 161-170
ViewerNickname(p, isAuthenticated, forceReadonly, rnd) ==
  IF ~isAuthenticated /\ forceReadonly THEN Set(p, "nickname", randomNick("Viewer", rnd)) ELSE p
\* Math.random() is called on line 164 only; elsewhere nothing is drawn
DrawsMade(isAuthenticated, forceReadonly) ==
  IF ~isAuthenticated /\ forceReadonly THEN RandomDraws ELSE {0}

\* variant: the test of isAuthenticated is left out
ViewerMode_EvenIfAuthenticated(autoViewerMode, isAuthenticated, isRemoteWithNicknameSet) ==
  autoViewerMode /\ ~isRemoteWithNicknameSet

\* variant: the test of isRemoteWithNicknameSet is left out
ViewerMode_EvenIfNicknameSet(autoViewerMode, isAuthenticated, isRemoteWithNicknameSet) ==
  autoViewerMode /\ ~isAuthenticated

\* line 173
ViewerMode(autoViewerMode, isAuthenticated, isRemoteWithNicknameSet) ==
  autoViewerMode /\ ~isAuthenticated /\ ~isRemoteWithNicknameSet

\* variant: the reconnect mode is set under the same test as the buttons
ExternalAuthSettings_OnlyAnonymous(p, icp, mode, isAuthenticated) ==
  IF TryOIDC(icp) /\ ~isAuthenticated
    THEN Set(Set(p, "livechat_external_auth_oidc_buttons", icp.externalAuthOIDC),
             "livechat_external_auth_reconnect_mode",
             IF mode = "peertube-video" THEN "button-close-open" ELSE "reload")
    ELSE p

\* lines 177-191
ExternalAuthSettings(p, icp, mode, isAuthenticated) ==
  LET p1 == IF TryOIDC(icp) /\ ~isAuthenticated
              THEN Set(p, "livechat_external_auth_oidc_buttons", icp.externalAuthOIDC) ELSE p
  IN IF TryOIDC(icp)
       THEN Set(p1, "livechat_external_auth_reconnect_mode",
                IF mode = "peertube-video" THEN "button-close-open" ELSE "reload")
       ELSE p1

\* lines 193-203
IncludeModeSettings(p, mode) ==
  LET p1 == IF mode = "peertube-video" THEN Set(p, "livechat_mini_muc_head", TRUE) ELSE p
  IN IF mode = "peertube-video" \/ mode = "peertube-fullpage"
       THEN Set(Set(p1, "livechat_task_app_enabled", TRUE),
                "livechat_task_app_restore", mode = "peertube-fullpage")
       ELSE p1

PostProcess(icp, mode, r, rnd) ==
  LET p1 == ViewerNickname(r.params, r.isAuthenticated, icp.forceReadonly, rnd)
      p2 == Set(p1, "livechat_enable_viewer_mode",
                ViewerMode(icp.autoViewerMode, r.isAuthenticated, r.isRemoteWithNicknameSet))
      p3 == Set(p2, "livechat_specific_external_authent", r.isAuthenticatedWithExternalAccount)
  IN IncludeModeSettings(ExternalAuthSettings(p3, icp, mode, r.isAuthenticated), mode)

\* ---- lines 205-213: the hand-over to ConverseJS ----
\* window.reconnectConverse ? reconnectConverse(params) : converse.initialize(params)
WidgetCall(reconnectRegistered) == IF reconnectRegistered THEN "reconnect" ELSE "initialize"

\* variant: the catch block falls back on converse.initialize
HandOver_Retry(reconnectRegistered, throws) ==
  [calls |-> IF throws THEN <<WidgetCall(reconnectRegistered), "initialize">>
                       ELSE <<WidgetCall(reconnectRegistered)>>,
   logged |-> throws,
   rethrown |-> FALSE]

\* try { one call } catch (error) { console.error(...) }: the calls made, whether
\* the catch block logged, whether initConverse rejects
HandOver(reconnectRegistered, throws) ==
  [calls |-> <<WidgetCall(reconnectRegistered)>>,
   logged |-> throws,
   rethrown |-> FALSE]

\* ---- the attempts and what they are given ----
NumAttempts == 2
Attempts == 1 .. NumAttempts
\* the chat as the top window, and in an iframe of another origin
Windows == {[self |-> "chat", top |-> "chat", topThrows |-> FALSE],
            [self |-> "chat", top |-> "page", topThrows |-> TRUE]}
ChatIncludeModes == {"chat-only", "peertube-video", "peertube-fullpage"}
\* the server gives a path; the absolute form is what a second call finds in
\* the object after the first one rewrote it
WebsocketUrls == {RelativeUrl("/xmpp-websocket")}
OIDCProviders == {<<>>, <<"oidc-provider">>}
InitConverseParamsSet ==
  [isRemoteChat : BOOLEAN,
   remoteAnonymousXMPPServer : BOOLEAN,
   remoteAuthenticatedXMPPServer : BOOLEAN,
   autoViewerMode : BOOLEAN,
   forceReadonly : BOOLEAN,
   externalAuthOIDC : OIDCProviders,
   localAnonymousJID : {"anon.video.example.org"},
   localBoshServiceUrl : {RelativeUrl("/http-bind")},
   localWebsocketServiceUrl : WebsocketUrls,
   remoteAnonymousJID : {"anon.remote.example.org"},
   remoteBoshServiceUrl : {[scheme |-> "https:", host |-> "remote.example.org", path |-> "/http-bind"]},
   remoteWebsocketServiceUrl : {[scheme |-> "wss:", host |-> "remote.example.org", path |-> "/xmpp-websocket"]},
   autofocus : {FALSE},
   forceDefaultHideMucParticipants : {FALSE}]
NoParams == [jid |-> JsUndefined]
NoFlags == Branch(NoParams, FALSE, FALSE, FALSE)

ConverseInit ==
  /\ chatIncludeMode \in ChatIncludeModes
  /\ hostWindow \in Windows
  /\ initConverseParams \in InitConverseParamsSet
  /\ givenParams = initConverseParams
  /\ pc = [a \in Attempts |-> "idle"]
  /\ authOf = [a \in Attempts |-> JsUndefined]
  /\ params = [a \in Attempts |-> NoParams]
  /\ flags = [a \in Attempts |-> NoFlags]
  /\ handed = [a \in Attempts |-> "none"]
  /\ errorLogged = [a \in Attempts |-> FALSE]
  /\ widgetCalls = [a \in Attempts |-> <<>>]
  /\ reconnectConverse = FALSE
  /\ bodyIsErrorPage = FALSE
  /\ destroyed = FALSE

\* lines 78-118: initConverse runs up to the await of getLocalAuthentInfos
\* (the attempts are numbered in the order of the calls of initConverse)
Begin(a) ==
  /\ pc[a] = "idle"
  /\ \A b \in Attempts : b < a => pc[b] # "idle"
  /\ ~destroyed
  /\ LET icp == PrepareInitParams(initConverseParams, chatIncludeMode, inIframe(hostWindow))
     IN /\ initConverseParams' = icp
        /\ params' = [params EXCEPT ![a] = InitialParams(icp, chatIncludeMode)]
  /\ pc' = [pc EXCEPT ![a] = "awaiting"]
  /\ UNCHANGED <<chatIncludeMode, hostWindow, givenParams, authOf, flags, handed, errorLogged, widgetCalls,
                 reconnectConverse, bodyIsErrorPage, destroyed>>

\* lines 118-213: the lookup has settled and initConverse runs to its end.
\* window.reconnectConverse is set by the livechatSpecificsPlugin (line 206),
\* that is once converse.initialize has run without throwing.
LookupCompletes(a) ==
  /\ pc[a] = "awaiting"
  /\ \E auth \in getLocalAuthentInfos(TryOIDC(initConverseParams)) :
       LET r == ResolveBranch(initConverseParams, auth, params[a])
           call == WidgetCall(reconnectConverse)
       IN /\ authOf' = [authOf EXCEPT ![a] = auth]
          /\ flags' = [flags EXCEPT ![a] = [r EXCEPT !.params = NoParams]]
          /\ IF JidIsNull(r.params)
               THEN /\ params' = [params EXCEPT ![a] = r.params]
                    /\ pc' = [pc EXCEPT ![a] = NoJidOutcome(chatIncludeMode)]
                    /\ bodyIsErrorPage' = (bodyIsErrorPage \/ NoJidOutcome(chatIncludeMode) = "errorPage")
                    /\ UNCHANGED <<handed, errorLogged, widgetCalls, reconnectConverse>>
               ELSE \E rnd \in DrawsMade(r.isAuthenticated, initConverseParams.forceReadonly),
                       throws \in BOOLEAN :
                      LET h == HandOver(reconnectConverse, throws)
                      IN /\ params' = [params EXCEPT ![a] =
                                         PostProcess(initConverseParams, chatIncludeMode, r, rnd)]
                         /\ handed' = [handed EXCEPT ![a] = call]
                         /\ errorLogged' = [errorLogged EXCEPT ![a] = h.logged]
                         /\ widgetCalls' = [widgetCalls EXCEPT ![a] = h.calls]
                         /\ reconnectConverse' = (reconnectConverse \/ (call = "initialize" /\ ~throws))
                         /\ pc' = [pc EXCEPT ![a] = IF h.rethrown THEN "thrown" ELSE "done"]
                         /\ UNCHANGED bodyIsErrorPage
  /\ UNCHANGED <<chatIncludeMode, hostWindow, initConverseParams, givenParams, destroyed>>

\* the host page navigates away, or the embedding instance is destroyed
Destroy ==
  /\ ~destroyed
  /\ destroyed' = TRUE
  /\ UNCHANGED <<chatIncludeMode, hostWindow, initConverseParams, givenParams, pc, authOf, params,
                 flags, handed, errorLogged, widgetCalls, reconnectConverse, bodyIsErrorPage>>

(***************************************************************************)
(* Specifications.                                                         *)
(***************************************************************************)
\* the state of a part that a specification does not run
ProbeIdle ==
  /\ livechatInfos = JsUndefined /\ canWebsocketS2S = FALSE /\ canDirectS2S = FALSE
  /\ probeAnonymous = NotRun /\ probeRemoteAuth = NotRun /\ probeCompatible = NotRun
LookupIdle ==
  /\ browser = [fetch |-> FALSE, localStorage |-> FALSE, token_type |-> "",
                access_token |-> "", refresh_token |-> ""]
  /\ lookupPc = "idle" /\ lookupRequests = 0
  /\ lookupResponse = NoResponse /\ lookupResult = JsUndefined
ConverseIdle ==
  /\ chatIncludeMode = "chat-only"
  /\ hostWindow = CHOOSE w \in Windows : TRUE
  /\ initConverseParams = CHOOSE icp \in InitConverseParamsSet : TRUE
  /\ givenParams = initConverseParams
  /\ pc = [a \in Attempts |-> "idle"]
  /\ authOf = [a \in Attempts |-> JsUndefined]
  /\ params = [a \in Attempts |-> NoParams]
  /\ flags = [a \in Attempts |-> NoFlags]
  /\ handed = [a \in Attempts |-> "none"]
  /\ errorLogged = [a \in Attempts |-> FALSE]
  /\ widgetCalls = [a \in Attempts |-> <<>>]
  /\ reconnectConverse = FALSE
  /\ bodyIsErrorPage = FALSE
  /\ destroyed = FALSE

\* initConverse
Init == ConverseInit /\ ProbeIdle /\ LookupIdle
Next ==
  \/ \E a \in Attempts : Begin(a) /\ UNCHANGED <<probeVars, lookupVars>>
  \/ \E a \in Attempts : LookupCompletes(a) /\ UNCHANGED <<probeVars, lookupVars>>
  \/ Destroy /\ UNCHANGED <<probeVars, lookupVars>>
Spec == Init /\ [][Next]_vars

\* the capability probe
InitProbe == ProbeInit /\ LookupIdle /\ ConverseIdle
NextProbe ==
  \/ ProbeAnonymous /\ UNCHANGED <<lookupVars, converseVars>>
  \/ ProbeRemoteAuthenticated /\ UNCHANGED <<lookupVars, converseVars>>
  \/ ProbeCompatible /\ UNCHANGED <<lookupVars, converseVars>>
SpecProbe == InitProbe /\ [][NextProbe]_vars

\* the identity lookup
InitLookup == LookupInit /\ ProbeIdle /\ ConverseIdle
NextLookup ==
  \/ LookupStart /\ UNCHANGED <<probeVars, converseVars>>
  \/ FetchRejects /\ UNCHANGED <<probeVars, converseVars>>
  \/ FetchResolves /\ UNCHANGED <<probeVars, converseVars>>
  \/ JsonSettles /\ UNCHANGED <<probeVars, converseVars>>
SpecLookup == InitLookup /\ [][NextLookup]_vars


(***************************************************************************)
(* Properties of initConverse (checked under Spec).                        *)
(***************************************************************************)
\* the attempt has run to its end
Resolved(a) == pc[a] \in {"done", "errorPage", "thrown"}
ViewerModeEnabled(p) == Has(p, "livechat_enable_viewer_mode") /\ p["livechat_enable_viewer_mode"]
EndpointPresent(p) == Has(p, "bosh_service_url") \/ Has(p, "websocket_url")
IsLogin(p) == p["authentication"] = "login"
\* the inputs of the branches of the decision
IdentityFound(a) == Truthy(authOf[a])
FallbackInputs(a) ==
  /\ IdentityFound(a) /\ initConverseParams.isRemoteChat
  /\ ~initConverseParams.remoteAuthenticatedXMPPServer
  /\ initConverseParams.remoteAnonymousXMPPServer
UnreachableInputs(a) ==
  /\ initConverseParams.isRemoteChat
  /\ ~initConverseParams.remoteAnonymousXMPPServer
  /\ IdentityFound(a) => ~initConverseParams.remoteAuthenticatedXMPPServer
\* branch 3 was taken: line 132 is the only place that sets isRemoteWithNicknameSet
FallbackTaken(a) == flags[a].isRemoteWithNicknameSet

\* C1: whenever an attempt has ended with jid = null, viewer mode is off in its
\* configuration and the configuration carries no BOSH and no WebSocket endpoint.
C1_NullJidIsInert ==
  \A a \in Attempts :
    (Resolved(a) /\ JidIsNull(params[a])) =>
      (~ViewerModeEnabled(params[a]) /\ ~EndpointPresent(params[a]))

C1_Witness ==
  \E a \in Attempts :
    /\ Resolved(a) /\ JidIsNull(params[a])
    /\ IdentityFound(a) /\ initConverseParams.autoViewerMode

\* C2: no configuration has authentication = login together with viewer mode on;
\* a login branch switches viewer mode off whatever autoViewerMode is.
C2_NoViewerModeWithLogin ==
  \A a \in Attempts :
    Resolved(a) =>
      ~((IsLogin(params[a]) \/ flags[a].isAuthenticated) /\ ViewerModeEnabled(params[a]))

C2_Witness ==
  \E a \in Attempts :
    /\ pc[a] = "done" /\ handed[a] # "none"
    /\ IsLogin(params[a]) /\ initConverseParams.autoViewerMode

\* C3 (as claimed): in the fallback-to-anonymous branch viewer mode follows the
\* preference, viewerModeEnabled = autoViewerMode.
C3_ViewerModePerPreference ==
  \A a \in Attempts :
    (Resolved(a) /\ FallbackInputs(a)) =>
      (ViewerModeEnabled(params[a]) = initConverseParams.autoViewerMode)

\* C3 (amended): in the fallback-to-anonymous branch the identity is not used to
\* log in, the configuration is handed to the widget, and viewer mode is off
\* whatever autoViewerMode is.
C3_FallbackHasNoViewerMode ==
  \A a \in Attempts :
    (Resolved(a) /\ FallbackInputs(a)) =>
      /\ FallbackTaken(a) /\ ~flags[a].isAuthenticated /\ ~IsLogin(params[a])
      /\ pc[a] = "done" /\ handed[a] # "none"
      /\ ~JidIsNull(params[a])
      /\ ~ViewerModeEnabled(params[a])

C3_Witness ==
  \E a \in Attempts :
    Resolved(a) /\ FallbackInputs(a) /\ initConverseParams.autoViewerMode

\* C4 (as claimed): with an authenticated identity, exactly one of
\* "authentication = login" and "the fallback branch was taken" holds.
C4_LoginXorFallback ==
  \A a \in Attempts :
    (Resolved(a) /\ IdentityFound(a)) => (IsLogin(params[a]) # FallbackTaken(a))

\* C4 (amended): with an authenticated identity, exactly one of these holds:
\* authentication = login, the fallback branch was taken, or the room is
\* unreachable (jid = null and nothing is handed to the widget).
C4_LoginXorFallbackXorUnreachable ==
  \A a \in Attempts :
    (Resolved(a) /\ IdentityFound(a)) =>
      LET login == IsLogin(params[a])
          fallback == FallbackTaken(a)
          unreachable == JidIsNull(params[a]) /\ handed[a] = "none"
      IN /\ login \/ fallback \/ unreachable
         /\ ~(login /\ fallback) /\ ~(login /\ unreachable) /\ ~(fallback /\ unreachable)
         /\ unreachable <=> UnreachableInputs(a)

C4_Witness ==
  \E a \in Attempts :
    Resolved(a) /\ IdentityFound(a) /\ JidIsNull(params[a]) /\ ~IsLogin(params[a])

\* C5: when the room is remote and no connection path exists, jid is null, the
\* widget is never called, and the attempt ends visibly: with the error page in
\* chat-only mode, with a thrown error in the other modes.
C5_UnreachableEndsVisibly ==
  \A a \in Attempts :
    (Resolved(a) /\ UnreachableInputs(a)) =>
      /\ JidIsNull(params[a])
      /\ handed[a] = "none" /\ ~errorLogged[a]
      /\ IF chatIncludeMode = "chat-only"
           THEN pc[a] = "errorPage" /\ bodyIsErrorPage
           ELSE pc[a] = "thrown"

C5_Witness ==
  \E a \in Attempts :
    /\ Resolved(a) /\ UnreachableInputs(a)
    /\ chatIncludeMode = "chat-only" /\ pc[a] = "errorPage" /\ bodyIsErrorPage

\* C10 (as claimed): once the instance is destroyed, the completion of a lookup
\* that was in flight applies nothing: no call of the widget, no page rewrite.
C10_ResultDiscardedAfterDestroy ==
  [][\A a \in Attempts :
       (destroyed /\ pc[a] = "awaiting") =>
         (handed'[a] = "none" /\ bodyIsErrorPage' = bodyIsErrorPage)]_vars


\* what an attempt builds when it is the only one to run: the configuration of
\* lines 78-203 from the parameters as given, its own lookup result and draw
AloneConfig(given, mode, win, auth, rnd) ==
  LET icp == PrepareInitParams(given, mode, inIframe(win))
      r == ResolveBranch(icp, auth, InitialParams(icp, mode))
  IN IF JidIsNull(r.params) THEN r.params ELSE PostProcess(icp, mode, r, rnd)

\* C11 (as claimed): while an attempt is suspended at the lookup, no other
\* attempt changes the state it reads afterwards: the init parameters object
\* and window.reconnectConverse.
C11_NoWriteObservable ==
  [][\A a \in Attempts :
       (pc[a] = "awaiting" /\ pc'[a] = "awaiting") =>
         (initConverseParams' = initConverseParams /\ reconnectConverse' = reconnectConverse)]_vars

\* C11 (amended): an attempt whose lookup completes builds the configuration
\* it builds when run alone from the parameters as given, whatever the other
\* attempts did while it was suspended; the widget call it makes is not its
\* own: it follows window.reconnectConverse as the other attempts left it.
C11_OwnConfiguration ==
  [][\A a \in Attempts :
       (pc[a] = "awaiting" /\ pc'[a] # "awaiting") =>
         /\ \E rnd \in RandomDraws :
              params'[a] = AloneConfig(givenParams, chatIncludeMode, hostWindow, authOf'[a], rnd)
         /\ handed'[a] \in {"none", WidgetCall(reconnectConverse)}]_vars

\* the second attempt began while the first was suspended, ended before it,
\* and the first one then reconnected
C11_Witness ==
  /\ NumAttempts >= 2
  /\ pc[1] = "done" /\ pc[2] = "done"
  /\ handed[2] = "initialize" /\ handed[1] = "reconnect"
  /\ givenParams # initConverseParams


\* the decimal reading of a sequence of digit characters
DigitValue(c) == CHOOSE d \in 0 .. 9 : DigitChars[d + 1] = c
RECURSIVE DecimalValue(_)
DecimalValue(digits) ==
  IF digits = <<>> THEN 0
  ELSE 10 * DecimalValue(SubSeq(digits, 1, Len(digits) - 1)) + DigitValue(digits[Len(digits)])
IsDigits(digits) == \A i \in 1 .. Len(digits) : \E d \in 1 .. 10 : DigitChars[d] = digits[i]
NickSuffix(nick) == SubSeq(nick, 3, Len(nick))
\* the attempt ended on line 205 with isAuthenticated false
EndedUnauthenticated(a) == pc[a] = "done" /\ ~flags[a].isAuthenticated

\* C12: an attempt that ends unauthenticated with a jid and forceReadonly set has
\* the nickname "Viewer", a space and six digits that read as an integer of
\* 100000..999999; without forceReadonly the anonymous branches end with no
\* nickname, and the only nickname of an unauthenticated attempt is the one the
\* fallback branch took from the identity.
C12_ViewerNickname ==
  \A a \in Attempts :
    EndedUnauthenticated(a) =>
      IF initConverseParams.forceReadonly
        THEN /\ Has(params[a], "nickname")
             /\ LET nick == params[a]["nickname"]
                IN /\ Len(nick) = 8 /\ nick[1] = "Viewer" /\ nick[2] = " "
                   /\ IsDigits(NickSuffix(nick))
                   /\ nick[3] # "0"
                   /\ DecimalValue(NickSuffix(nick)) \in 100000 .. 999999
        ELSE Has(params[a], "nickname") => FallbackTaken(a)

\* an anonymous attempt under forceReadonly ended with the nickname of the
\* highest draw, another one with the nickname of the lowest draw
C12_Witness ==
  \E a, b \in Attempts :
    /\ EndedUnauthenticated(a) /\ EndedUnauthenticated(b)
    /\ ~IdentityFound(a) /\ ~IdentityFound(b)
    /\ initConverseParams.forceReadonly
    /\ DecimalValue(NickSuffix(params[a]["nickname"])) = 100000
    /\ DecimalValue(NickSuffix(params[b]["nickname"])) > 999000


\* the reconnect strategy and the mini-header mode the embedding mode stands for
ReconnectModeOf(mode) == IF mode = "peertube-video" THEN "button-close-open" ELSE "reload"
MiniHeaderOf(mode) == mode = "peertube-video"
MiniHeader(p) == Has(p, "livechat_mini_muc_head") /\ p["livechat_mini_muc_head"]
HasReconnectMode(p) == Has(p, "livechat_external_auth_reconnect_mode")

\* C13 (as claimed): every configuration handed to the widget carries the
\* reconnect strategy and the mini-header mode that its embedding mode alone
\* stands for.
C13_ModeAloneDecides ==
  \A a \in Attempts :
    pc[a] = "done" =>
      /\ HasReconnectMode(params[a])
      /\ params[a]["livechat_external_auth_reconnect_mode"] = ReconnectModeOf(chatIncludeMode)
      /\ MiniHeader(params[a]) = MiniHeaderOf(chatIncludeMode)

\* C13 (amended): the mini-header mode is decided by the embedding mode alone;
\* the reconnect strategy is decided by the embedding mode and by whether OIDC
\* providers are configured: it is set, to the strategy of the mode, exactly
\* when the provider list is not empty, whatever the identity and the room.
C13_ModeAndOIDCDecide ==
  \A a \in Attempts :
    pc[a] = "done" =>
      /\ HasReconnectMode(params[a]) = TryOIDC(initConverseParams)
      /\ HasReconnectMode(params[a]) =>
           params[a]["livechat_external_auth_reconnect_mode"] = ReconnectModeOf(chatIncludeMode)
      /\ MiniHeader(params[a]) = MiniHeaderOf(chatIncludeMode)

\* with OIDC providers configured, an attempt that found an identity and one
\* that found none ended with the same reconnect strategy and mini-header mode
C13_Witness ==
  \E a, b \in Attempts :
    /\ pc[a] = "done" /\ pc[b] = "done"
    /\ IdentityFound(a) /\ ~IdentityFound(b)
    /\ TryOIDC(initConverseParams)
    /\ HasReconnectMode(params[a]) /\ HasReconnectMode(params[b])
    /\ params[a]["livechat_external_auth_reconnect_mode"] = "button-close-open"
    /\ params[b]["livechat_external_auth_reconnect_mode"] = "button-close-open"
    /\ MiniHeader(params[a]) /\ MiniHeader(params[b])


\* the attempt handed its configuration over and the call returned
Initialized(a) == handed[a] = "initialize" /\ ~errorLogged[a]

\* C14: an attempt calls the widget at most once, never before its lookup has
\* completed, through reconnectConverse when it is registered and through
\* converse.initialize otherwise; when the call throws, the error is logged,
\* initConverse still ends normally and no further call is made.
C14_HandedAtMostOnce ==
  /\ \A a \in Attempts :
       /\ Len(widgetCalls[a]) <= 1
       /\ pc[a] \in {"idle", "awaiting"} => widgetCalls[a] = <<>>
       /\ pc[a] = "done" => widgetCalls[a] \in {<<"initialize">>, <<"reconnect">>}
       /\ widgetCalls[a] = <<"reconnect">> =>
            reconnectConverse /\ \E b \in Attempts \ {a} : Initialized(b)
       /\ errorLogged[a] => pc[a] = "done" /\ Len(widgetCalls[a]) = 1
  /\ \A a, b \in Attempts : (Initialized(a) /\ Initialized(b)) => a = b

\* the widget call of an attempt threw: the attempt is over, with its one call
\* and the error logged, while another attempt has not called the widget yet
C14_Witness ==
  \E a, b \in Attempts :
    /\ pc[a] = "done" /\ errorLogged[a] /\ Len(widgetCalls[a]) = 1
    /\ pc[b] = "awaiting" /\ widgetCalls[b] = <<>>


(***************************************************************************)
(* Properties of the capability probe (checked under SpecProbe).           *)
(***************************************************************************)
\* what a room record carries, read from the record itself
IsObject(x) == x.t = "object"
IsXmppRecord(li) == IsObject(li) /\ "type" \in DOMAIN li.f /\ IsStr(li.f["type"], "xmpp")
HasServerBlock(li) ==
  IsObject(li) /\ "xmppserver" \in DOMAIN li.f /\ IsObject(li.f["xmppserver"])
HasAnonymousBlock(li) ==
  HasServerBlock(li) /\ "anonymous" \in DOMAIN li.f["xmppserver"].f
    /\ IsObject(li.f["xmppserver"].f["anonymous"])
AnonymousBlockOf(li) == li.f["xmppserver"].f["anonymous"]
NonEmpty(obj, k) == k \in DOMAIN obj.f /\ obj.f[k].t = "string" /\ obj.f[k].v # ""
Ran(result) == result.t # "notrun"
Carries(result, k) == IsObject(result) /\ k \in DOMAIN result.f

\* C6 (as claimed): anonymousConnectionInfos returns a record exactly when the
\* room record has an anonymous block with a virtual host and at least one
\* non-empty endpoint; the record returned carries only the endpoints present.
C6_AnonymousIffVirtualHostAndEndpoint ==
  Ran(probeAnonymous) =>
    /\ IsObject(probeAnonymous) <=>
         /\ IsXmppRecord(livechatInfos) /\ HasAnonymousBlock(livechatInfos)
         /\ NonEmpty(AnonymousBlockOf(livechatInfos), "virtualhost")
         /\ \/ NonEmpty(AnonymousBlockOf(livechatInfos), "bosh")
            \/ NonEmpty(AnonymousBlockOf(livechatInfos), "websocket")
    /\ ~IsObject(probeAnonymous) => probeAnonymous = JsNull
    /\ IsObject(probeAnonymous) =>
         /\ Carries(probeAnonymous, "boshUri") <=> NonEmpty(AnonymousBlockOf(livechatInfos), "bosh")
         /\ Carries(probeAnonymous, "wsUri") <=> NonEmpty(AnonymousBlockOf(livechatInfos), "websocket")

\* the room record has no usable server block: it is missing, of another type,
\* or without xmppserver
NoCapabilityRecord(li) == ~IsXmppRecord(li) \/ ~HasServerBlock(li)

\* C7: on a record that is missing, of another type or without xmppserver, each
\* of the three probe operations returns its "no capability" value (null, false,
\* false) and none raises.
C7_NoCapabilityWithoutServerBlock ==
  NoCapabilityRecord(livechatInfos) =>
    /\ Ran(probeAnonymous) => probeAnonymous = JsNull
    /\ Ran(probeRemoteAuth) => probeRemoteAuth = JsBool(FALSE)
    /\ Ran(probeCompatible) => probeCompatible = JsBool(FALSE)

C7_Witness ==
  /\ Ran(probeAnonymous) /\ Ran(probeRemoteAuth) /\ Ran(probeCompatible)
  /\ ~IsXmppRecord(livechatInfos) /\ HasAnonymousBlock(livechatInfos)
  /\ NonEmpty(AnonymousBlockOf(livechatInfos), "bosh")
  /\ Truthy(livechatInfos.f["xmppserver"].f["websockets2s"])
  /\ canWebsocketS2S

RemoteFlag(li, k) == Truthy(li.f["xmppserver"].f[k])

\* C8: on a well-formed record, compatibleRemoteAuthenticatedConnectionEnabled
\* is true exactly when (local websocket s2s and remote websockets2s) or (local
\* direct s2s and remote directs2s).
C8_CompatibleIffSameTransport ==
  (Ran(probeCompatible) /\ IsXmppRecord(livechatInfos) /\ HasServerBlock(livechatInfos)) =>
    probeCompatible =
      JsBool(\/ canWebsocketS2S /\ RemoteFlag(livechatInfos, "websockets2s")
             \/ canDirectS2S /\ RemoteFlag(livechatInfos, "directs2s"))

\* a mixed combination: websocket only on this side, direct only on the other
C8_Witness ==
  /\ Ran(probeCompatible) /\ IsXmppRecord(livechatInfos) /\ HasServerBlock(livechatInfos)
  /\ canWebsocketS2S /\ ~canDirectS2S
  /\ ~RemoteFlag(livechatInfos, "websockets2s") /\ RemoteFlag(livechatInfos, "directs2s")
  /\ probeCompatible = JsBool(FALSE)

(***************************************************************************)
(* Properties of the identity lookup (checked under SpecLookup).           *)
(***************************************************************************)
IsCredentials(x) == IsObject(x) /\ NonEmpty(x, "jid") /\ NonEmpty(x, "password")

\* C9: the lookup never lets an error out and never retries: it returns false
\* on every failure, returns credentials only for a successful response that
\* carries jid and password, and issues at most one request, none when no
\* token is stored.
C9_LookupFailsSoft ==
  /\ lookupPc # "raised"
  /\ lookupRequests <= 1
  /\ (NotLoggedIn(browser) \/ ~browser.fetch \/ ~browser.localStorage) => lookupRequests = 0
  /\ lookupPc = "returned" =>
       \/ lookupResult = JsBool(FALSE)
       \/ /\ IsCredentials(lookupResult)
          /\ lookupRequests = 1
          /\ lookupResponse.ok /\ IsCredentials(lookupResponse.body)
          /\ lookupResult.f["jid"] = lookupResponse.body.f["jid"]
          /\ lookupResult.f["password"] = lookupResponse.body.f["password"]
  /\ (lookupPc = "returned" /\ lookupResponse.ok /\ IsCredentials(lookupResponse.body)) =>
       IsCredentials(lookupResult)

\* a response whose body is null: the read of data.jid throws inside the try
C9_Witness ==
  /\ lookupPc = "returned" /\ lookupRequests = 1
  /\ lookupResponse.ok /\ lookupResponse.body = JsNull
  /\ lookupResult = JsBool(FALSE)


====
